---- MODULE Spec2Model ----
(***************************************************************************)
(* example.py: the shape-check script of autoencoder-compression.          *)
(*                                                                         *)
(* The script is a straight line of seven statements (two imports, the     *)
(* random input, the model's construction, the forward call, two prints).  *)
(* The state is the module namespace (imports, dummy, model, out), what    *)
(* has been written to standard output, the position in the script and the *)
(* process's exit status.  torch and autoencoder.Autoencoder are external: *)
(* an import, the constructor and the forward call each either return or   *)
(* raise, and the forward call returns a tensor whose shape the script     *)
(* does not control (it may also resize its argument in place).            *)
(***************************************************************************)
EXTENDS Integers, Sequences, FiniteSets

\* ---------------------------------------------------------------- bounds

\* Sample values are abstracted to their integer part, kept within
\* -MaxSample .. MaxSample.
MaxSample == 1

\* Each axis of the tensor the external model returns lies within MaxDelta
\* of the corresponding axis of the input.
MaxDelta == 1

\* ------------------------------------------------------ program constants

\* torch.randn(2, 3, 150, 225)
BatchSize == 2

Channels == 3

Height == 150

Width == 225

InputLabel == "input  shape :"

OutputLabel == "output shape:"

\* ----------------------------------------------------------------- values

\* A name of the module namespace that no statement has bound yet.
Unbound == [kind |-> "unbound"]

\* The integer parts of the values a standard normal draw can take
\* (torch.randn: mean 0, variance 1, support the whole real line).
Samples == (0 - MaxSample) .. MaxSample

\* A tensor: its shape and the set of (abstracted) values it holds.
Tensor(shape, data) == [kind |-> "tensor", shape |-> shape, data |-> data]

\* The shape handed to torch.randn at line 12.
InputShape == <<BatchSize, Channels, Height, Width>>

Around(d) == (d - MaxDelta) .. (d + MaxDelta)

\* The shapes the external forward computation may return: four axes, each
\* near the input's (an encoder/decoder that pads or truncates an axis).
OutShapes ==
  {<<n, c, h, w>> : n \in Around(BatchSize), c \in Around(Channels),
                    h \in Around(Height), w \in Around(Width)}

\* ---------------------------------------------------------------- program

\* Mutant of Program: the forward call is written twice.
ProgramForwardTwice ==
  <<"import_torch", "import_autoencoder", "randn", "construct",
    "forward", "forward", "print_input", "print_output">>

\* Mutant of Program: the input shape is printed before the model is called.
ProgramPrintEarly ==
  <<"import_torch", "import_autoencoder", "randn", "construct",
    "print_input", "forward", "print_output">>

\* The statements of the script in file order (lines 8, 9, 12, 14, 15, 17, 18).
Program ==
  <<"import_torch", "import_autoencoder", "randn", "construct",
    "forward", "print_input", "print_output">>

VARIABLES
  pc,       \* index in Program of the next statement; Len(Program) + 1 at the end
  imports,  \* the imported names bound in the namespace
  dummy,    \* the name dummy: Unbound or a tensor
  model,    \* the name model: Unbound or the constructed module
  out,      \* the name out: Unbound or the tensor the forward call returned
  stdout,   \* the lines printed so far
  exit,     \* "running", "0" (normal end) or "1" (uncaught exception)
  exc,      \* "none", or the statement whose exception ended the process
  trace,    \* history: the statements that completed, in order
  altered   \* history: the forward call resized its argument in place

vars == <<pc, imports, dummy, model, out, stdout, exit, exc, trace, altered>>

Init ==
  /\ pc = 1
  /\ imports = {}
  /\ dummy = Unbound
  /\ model = Unbound
  /\ out = Unbound
  /\ stdout = <<>>
  /\ exit = "running"
  /\ exc = "none"
  /\ trace = <<>>
  /\ altered = FALSE

Running == exit = "running"

\* The statement the interpreter is about to execute.
Stmt == IF pc \in 1 .. Len(Program) THEN Program[pc] ELSE "end"

At(s) == Running /\ Stmt = s

\* The statement completed: the interpreter moves to the next one.
Advance ==
  /\ pc' = pc + 1
  /\ trace' = Append(trace, Stmt)
  /\ UNCHANGED <<exit, exc>>

\* The statement raised and nothing catches it: the interpreter prints the
\* traceback to standard error and exits with status 1.
Uncaught ==
  /\ exit' = "1"
  /\ exc' = Stmt
  /\ UNCHANGED <<pc, imports, dummy, model, out, stdout, trace, altered>>

\* ------------------------------------------------------------- statements

\* line 8: import torch
ImportTorch ==
  /\ At("import_torch")
  /\ imports' = imports \cup {"torch"}
  /\ Advance
  /\ UNCHANGED <<dummy, model, out, stdout, altered>>

\* line 8: torch is not installed (ModuleNotFoundError)
ImportTorchRaise ==
  /\ At("import_torch")
  /\ Uncaught

\* line 9: from autoencoder import Autoencoder
ImportAutoencoder ==
  /\ At("import_autoencoder")
  /\ imports' = imports \cup {"Autoencoder"}
  /\ Advance
  /\ UNCHANGED <<dummy, model, out, stdout, altered>>

\* line 9: autoencoder.py is not beside the script, or fails to import
ImportAutoencoderRaise ==
  /\ At("import_autoencoder")
  /\ Uncaught

\* Mutant of Randn: height and width are passed in the other order.
RandnTransposed ==
  /\ At("randn")
  /\ IF "torch" \in imports
     THEN /\ \E data \in (SUBSET Samples) \ {{}} :
               dummy' = Tensor(<<BatchSize, Channels, Width, Height>>, data)
          /\ Advance
          /\ UNCHANGED <<imports, model, out, stdout, altered>>
     ELSE Uncaught

\* Mutant of Randn: torch.empty, which allocates the tensor and fills nothing.
RandnEmpty ==
  /\ At("randn")
  /\ IF "torch" \in imports
     THEN /\ dummy' = Tensor(InputShape, {})
          /\ Advance
          /\ UNCHANGED <<imports, model, out, stdout, altered>>
     ELSE Uncaught

\* line 12: dummy = torch.randn(2, 3, 150, 225).  Every element is drawn
\* from the standard normal distribution; data is the set of values drawn.
Randn ==
  /\ At("randn")
  /\ IF "torch" \in imports
     THEN /\ \E data \in (SUBSET Samples) \ {{}} :
               dummy' = Tensor(InputShape, data)
          /\ Advance
          /\ UNCHANGED <<imports, model, out, stdout, altered>>
     ELSE Uncaught

\* line 14: model = Autoencoder()
Construct ==
  /\ At("construct")
  /\ IF "Autoencoder" \in imports
     THEN /\ model' = [kind |-> "module"]
          /\ Advance
          /\ UNCHANGED <<imports, dummy, out, stdout, altered>>
     ELSE Uncaught

\* Mutant of ConstructRaise: the exception is caught and the script goes on.
ConstructRaiseCaught ==
  /\ At("construct")
  /\ exc' = Stmt
  /\ pc' = pc + 1
  /\ UNCHANGED <<imports, dummy, model, out, stdout, exit, trace, altered>>

\* line 14: the external constructor raises
ConstructRaise ==
  /\ At("construct")
  /\ Uncaught

\* Mutant of Forward: the result is bound to dummy as well as to out.
ForwardRebinds ==
  /\ At("forward")
  /\ IF model.kind = "module" /\ dummy.kind = "tensor"
     THEN /\ \E s \in OutShapes :
               /\ out' = [kind |-> "tensor", shape |-> s]
               /\ dummy' = [dummy EXCEPT !.shape = s]
          /\ altered' = FALSE
          /\ Advance
          /\ UNCHANGED <<imports, model, stdout>>
     ELSE Uncaught

\* line 15: out = model(dummy).  The external forward computation returns a
\* tensor of a shape of its own choosing; it may resize its argument in
\* place (and then returns a tensor of that shape).  Only the result's
\* shape is ever read, so its values are not modelled.
Forward ==
  /\ At("forward")
  /\ IF model.kind = "module" /\ dummy.kind = "tensor"
     THEN /\ \E s \in OutShapes, inplace \in BOOLEAN :
               /\ out' = [kind |-> "tensor", shape |-> s]
               /\ dummy' = IF inplace THEN [dummy EXCEPT !.shape = s] ELSE dummy
               /\ altered' = (altered \/ (inplace /\ s # dummy.shape))
          /\ Advance
          /\ UNCHANGED <<imports, model, stdout>>
     ELSE Uncaught

\* Mutant of ForwardRaise: the failure is handled by building the model anew.
ForwardRaiseRestart ==
  /\ At("forward")
  /\ pc' = pc - 1
  /\ model' = Unbound
  /\ trace' = SubSeq(trace, 1, Len(trace) - 1)
  /\ UNCHANGED <<imports, dummy, out, stdout, exit, exc, altered>>

\* line 15: the external forward computation raises
ForwardRaise ==
  /\ At("forward")
  /\ Uncaught

\* line 17: print("input  shape :", dummy.shape)
PrintInput ==
  /\ At("print_input")
  /\ IF dummy.kind = "tensor"
     THEN /\ stdout' = Append(stdout, [label |-> InputLabel, shape |-> dummy.shape])
          /\ Advance
          /\ UNCHANGED <<imports, dummy, model, out, altered>>
     ELSE Uncaught

\* Mutant of PrintOutput: the two shapes are compared before printing
\* (assert out.shape == dummy.shape).
PrintOutputChecked ==
  /\ At("print_output")
  /\ IF out.kind = "tensor" /\ out.shape = dummy.shape
     THEN /\ stdout' = Append(stdout, [label |-> OutputLabel, shape |-> out.shape])
          /\ Advance
          /\ UNCHANGED <<imports, dummy, model, out, altered>>
     ELSE Uncaught

\* line 18: print("output shape:", out.shape)
PrintOutput ==
  /\ At("print_output")
  /\ IF out.kind = "tensor"
     THEN /\ stdout' = Append(stdout, [label |-> OutputLabel, shape |-> out.shape])
          /\ Advance
          /\ UNCHANGED <<imports, dummy, model, out, altered>>
     ELSE Uncaught

\* End of file: the interpreter exits with status 0.
ExitSuccess ==
  /\ At("end")
  /\ exit' = "0"
  /\ UNCHANGED <<pc, imports, dummy, model, out, stdout, exc, trace, altered>>

Next ==
  \/ ImportTorch
  \/ ImportTorchRaise
  \/ ImportAutoencoder
  \/ ImportAutoencoderRaise
  \/ Randn
  \/ Construct
  \/ ConstructRaise
  \/ Forward
  \/ ForwardRaise
  \/ PrintInput
  \/ PrintOutput
  \/ ExitSuccess

Spec == Init /\ [][Next]_vars

\* The interpreter runs the script on one thread with no suspension point:
\* a statement that can execute does, and each external call returns or
\* raises.
FairSpec == Spec /\ WF_vars(Next)

\* ----------------------------------------------------------------- claims

IsPrefix(s, t) == Len(s) <= Len(t) /\ s = SubSeq(t, 1, Len(s))

\* The five steps the run is said to perform, in the order it is said to
\* perform them.
ClaimedSteps == <<"randn", "construct", "forward", "print_input", "print_output">>

IsClaimedStep(s) == \E i \in 1 .. Len(ClaimedSteps) : ClaimedSteps[i] = s

\* The claimed steps among the statements that have completed.
StepsDone == SelectSeq(trace, IsClaimedStep)

\* The forward call returned a tensor whose shape is not the input's.
Mismatch ==
  /\ out.kind = "tensor"
  /\ dummy.kind = "tensor"
  /\ out.shape # dummy.shape

\* C2: a run performs input generation, model construction, the forward
\* computation, the input-shape print and the output-shape print in exactly
\* this order, each once: at every moment the steps done are an initial part
\* of that list, and a completed run has done all of them.  The model is
\* not invoked before the input exists, and nothing is printed before the
\* forward computation has returned.
C2_StepsInOrder ==
  /\ IsPrefix(StepsDone, ClaimedSteps)
  /\ (exit = "0" => StepsDone = ClaimedSteps)
  /\ (At("forward") => dummy.kind = "tensor")
  /\ (stdout # <<>> => out.kind = "tensor")

C2_AllStepsDone == exit = "0" /\ StepsDone = ClaimedSteps /\ Len(stdout) = 2

\* C3: when model construction or the forward computation raises, nothing
\* catches it: the process is in the failure state with status 1, the
\* statements that completed are exactly those before the failing one, and
\* no step leaves the failure state.
C3_FailureIsFinal ==
  /\ [](exc \in {"construct", "forward"} =>
          /\ exit = "1"
          /\ pc \in 1 .. Len(Program)
          /\ Program[pc] = exc
          /\ trace = SubSeq(Program, 1, pc - 1))
  /\ [][exit = "1" => UNCHANGED vars]_vars

C3_ConstructFailed == exc = "construct" /\ exit = "1" /\ model = Unbound

\* C4: every run ends, and ends in one of two states: completed (every
\* statement done, status 0) or failed (status 1).  No state other than
\* these two is without a next step.
C4_Terminates ==
  /\ <>(exit # "running")
  /\ [](exit \in {"running", "0", "1"})
  /\ [](exit = "0" => (pc = Len(Program) + 1 /\ trace = Program))
  /\ []((~ ENABLED Next) <=> exit # "running")

C4_Completed == exit = "0" /\ pc = Len(Program) + 1

\* C5: from its creation until it is handed to the model, the input tensor
\* has exactly four axes and the shape (2, 3, 150, 225), whatever values
\* were drawn.
C5_InputShapeFixed ==
  (At("construct") \/ At("forward")) =>
    /\ dummy.kind = "tensor"
    /\ Len(dummy.shape) = 4
    /\ dummy.shape = <<2, 3, 150, 225>>

C5_HandedToModel ==
  /\ At("forward")
  /\ model.kind = "module"
  /\ dummy.shape = <<2, 3, 150, 225>>
  /\ dummy.data = {0 - 1, 1}

\* C6: nothing compares the two shapes.  Once the forward computation has
\* returned a tensor whose shape differs from the input's, the run never
\* fails, and it goes on to print both (different) shapes and to end with
\* status 0.
C6_NoShapeCheck ==
  /\ [](Mismatch => exit # "1")
  /\ Mismatch ~> (/\ exit = "0"
                  /\ Len(stdout) = 2
                  /\ stdout[1].shape = dummy.shape
                  /\ stdout[2].shape = out.shape
                  /\ stdout[1].shape # stdout[2].shape)

C6_MismatchCompleted == Mismatch /\ exit = "0"

\* C7 as stated: when the input is passed to the model it is a tensor of
\* the requested shape filled with uniformly random values, that is (as
\* torch.rand draws them) values of the unit interval [0, 1), whose integer
\* part is 0.
C7_UniformFill ==
  At("forward") =>
    /\ dummy.kind = "tensor"
    /\ dummy.shape = InputShape
    /\ dummy.data # {}
    /\ \A v \in dummy.data : 0 <= v /\ v < 1

\* C7 as amended: when the input is passed to the model it is a tensor of
\* the requested shape filled with standard normal random values, which
\* range over the whole real line (negative values and values of 1 or more
\* included).
C7_NormalFill ==
  At("forward") =>
    /\ dummy.kind = "tensor"
    /\ dummy.shape = InputShape
    /\ dummy.data # {}
    /\ dummy.data \subseteq Samples

C7_NegativeDrawn ==
  /\ At("forward")
  /\ \E v \in dummy.data : v < 0

\* C8: what is printed is always an initial part of (input shape line,
\* output shape line); a run that has ended printed both lines or none; and
\* a run ended by a failure of model construction or of the forward
\* computation printed none.
C8_PrintsBothOrNone ==
  /\ Len(stdout) <= 2
  /\ (Len(stdout) >= 1 => stdout[1].label = InputLabel)
  /\ (Len(stdout) = 2 => stdout[2].label = OutputLabel)
  /\ (exit # "running" => Len(stdout) \in {0, 2})
  /\ (exc \in {"construct", "forward"} => stdout = <<>>)

C8_ForwardFailedSilently == exc = "forward" /\ exit = "1" /\ stdout = <<>>

\* C9: no statement of the script other than the forward call changes
\* dummy once it is bound, and unless the forward computation resized its
\* argument in place the input shape printed is (2, 3, 150, 225), whatever
\* shape the model returned.
C9_InputUntouched ==
  /\ []((Len(stdout) >= 1 /\ ~ altered) => stdout[1].shape = <<2, 3, 150, 225>>)
  /\ [][(dummy.kind = "tensor" /\ ~ At("forward")) => dummy' = dummy]_vars

C9_PrintedDespiteOtherShape ==
  /\ Len(stdout) >= 1
  /\ ~ altered
  /\ out.shape # <<2, 3, 150, 225>>
  /\ stdout[1].shape = <<2, 3, 150, 225>>

====
